---- MODULE Spec2Model ----
(***************************************************************************)
(* Model of zabbix-alert-tracker (src/classes.py, src/app.py): the filter  *)
(* evaluation of Trigger.select_actions, the operation expansion of        *)
(* Trigger.check_operations, Message.__init__, the recipient resolution of *)
(* get_trigger_recipients and the request handler index.                   *)
(*                                                                         *)
(* Python strings that the code searches, rewrites or parses are modelled  *)
(* as sequences of one-character strings.  In an eval_formula the keywords *)
(* with their blanks (" and ", " or ", "not ") are the single symbols      *)
(* "&", "|" and "!": a formula-id is made of upper-case letters and the    *)
(* texts "True", "False", "None" contain no blank, so str.replace can      *)
(* never match inside or across a keyword.                                 *)
(***************************************************************************)
EXTENDS Integers, Sequences, FiniteSets, TLC

VARIABLES
    pc,           \* position of the modelled run
    trigger,      \* the Trigger under evaluation (classes.py:20-43)
    act,          \* the action whose filter select_actions evaluates
    cond_check,   \* its condition_check, in insertion order
    act_result,   \* what select_actions did with it
    action,       \* the selected action whose operations are expanded
    mediatypes,   \* ids of the active media types, in the order fetched
    operations,   \* check_operations' working list after the first loop
    messages,     \* Trigger.messages
    users,        \* the fetched users, by userid (app.py:146-155)
    usergroups,   \* the fetched user groups, by usrgrpid (app.py:136-143)
    recipients,   \* get_trigger_recipients' recipients, by userid
    user_groups,  \* get_trigger_recipients' user_groups, by usrgrpid
    groupids,     \* the targeted group ids the loop at app.py:171 has left
    ZABBIX_SERVER,    \* the module globals of app.py:7-9
    ZABBIX_USER,
    ZABBIX_PASSWORD,
    req,          \* the requests index is handling, by client
    triggers,     \* index's triggers, by triggerid (app.py:230)
    cursor        \* how far the loops at app.py:233-235 have come

selectVars == <<trigger, act, cond_check, act_result>>
opsVars == <<action, mediatypes, operations>>
rcpVars == <<users, usergroups, recipients, user_groups, groupids>>

idxVars == <<ZABBIX_SERVER, ZABBIX_USER, ZABBIX_PASSWORD, req, triggers, cursor>>

vars == <<pc, selectVars, opsVars, messages, rcpVars, idxVars>>

----------------------------------------------------------------------------
(* Bounds *)

MaxConds == 2
MaxChain == 6
MaxOps == 2
MaxMedia == 2
MaxMsgs == 2
NumClients == 2

----------------------------------------------------------------------------
(* Strings *)

Digits == {"0", "1", "2", "3", "4", "5", "6", "7", "8", "9"}

DigitVal(c) ==
    CASE c = "0" -> 0 [] c = "1" -> 1 [] c = "2" -> 2 [] c = "3" -> 3
      [] c = "4" -> 4 [] c = "5" -> 5 [] c = "6" -> 6 [] c = "7" -> 7
      [] c = "8" -> 8 [] c = "9" -> 9

DigitChar(d) ==
    CASE d = 0 -> "0" [] d = 1 -> "1" [] d = 2 -> "2" [] d = 3 -> "3"
      [] d = 4 -> "4" [] d = 5 -> "5" [] d = 6 -> "6" [] d = 7 -> "7"
      [] d = 8 -> "8" [] d = 9 -> "9"

IsNumeric(s) == Len(s) > 0 /\ \A i \in 1..Len(s) : s[i] \in Digits

RECURSIVE ParseInt(_)
ParseInt(s) ==
    IF Len(s) = 0 THEN 0
    ELSE 10 * ParseInt(SubSeq(s, 1, Len(s) - 1)) + DigitVal(s[Len(s)])

RECURSIVE NatToStr(_)
NatToStr(n) ==
    IF n < 10 THEN <<DigitChar(n)>>
    ELSE NatToStr(n \div 10) \o <<DigitChar(n % 10)>>

IntToStr(n) == IF n < 0 THEN <<"-">> \o NatToStr(0 - n) ELSE NatToStr(n)

IsSubstring(sub, s) ==
    \E i \in 0..(Len(s) - Len(sub)) : SubSeq(s, i + 1, i + Len(sub)) = sub

RECURSIVE Replace(_, _, _)
Replace(s, old, new) ==
    IF Len(s) < Len(old) THEN s
    ELSE IF SubSeq(s, 1, Len(old)) = old
         THEN new \o Replace(SubSeq(s, Len(old) + 1, Len(s)), old, new)
         ELSE <<s[1]>> \o Replace(Tail(s), old, new)

InSeq(x, s) == \E i \in 1..Len(s) : s[i] = x

PyTrue == <<"T", "r", "u", "e">>
PyFalse == <<"F", "a", "l", "s", "e">>
PyNone == <<"N", "o", "n", "e">>

PyStr(v) ==
    CASE v = "True" -> PyTrue
      [] v = "False" -> PyFalse
      [] v = "None" -> PyNone

Bool(b) == IF b THEN "True" ELSE "False"

----------------------------------------------------------------------------
(* Trigger and its attribute table *)

\* the values of Trigger._conditions, tagged with their Python type
ListData(items) == [kind |-> "list", items |-> items, s |-> <<>>, map |-> <<>>]
KeysData(map) == [kind |-> "keys", items |-> <<>>, s |-> <<>>, map |-> map]
DictData(map) == [kind |-> "dict", items |-> <<>>, s |-> <<>>, map |-> map]
StrData(s) == [kind |-> "str", items |-> <<>>, s |-> s, map |-> <<>>]

\* a condition value: the string of the API, or the {tag, value} pair
StrValue(s) == [kind |-> "str", s |-> s, tag |-> <<>>]
TagValue(tag, s) == [kind |-> "dict", s |-> s, tag |-> tag]

ConditionTypes == {"0", "1", "2", "3", "4", "13", "25", "26"}

Conditions(t) ==
    [ct \in ConditionTypes |->
        CASE ct = "0" -> ListData(t.hostgroups)
          [] ct = "1" -> ListData(t.hosts)
          [] ct = "2" -> ListData(<<t.triggerid>>)
          [] ct = "3" -> StrData(t.event_name)
          [] ct = "4" -> StrData(t.priority)
          [] ct = "13" -> ListData(t.templates)
          [] ct = "25" -> KeysData(t.tags)
          [] ct = "26" -> DictData(t.tags)]

\* Python's `value in trigger_data` for a string value
PyIn(value, data) ==
    CASE data.kind = "list" -> InSeq(value.s, data.items)
      [] data.kind = "keys" -> value.s \in DOMAIN data.map
      [] data.kind = "dict" -> value.s \in DOMAIN data.map
      [] data.kind = "str" -> IsSubstring(value.s, data.s)

\* Python's `value == trigger_data` for a string value
PyEq(value, data) == data.kind = "str" /\ value.s = data.s

\* str.strip() of the blanks int() ignores around a literal
RECURSIVE Strip(_)
Strip(s) ==
    IF Len(s) > 0 /\ s[1] = " " THEN Strip(Tail(s))
    ELSE IF Len(s) > 0 /\ s[Len(s)] = " " THEN Strip(SubSeq(s, 1, Len(s) - 1))
    ELSE s

\* the literal behind an optional sign
Unsigned(s) == IF Len(s) > 0 /\ s[1] \in {"+", "-"} THEN Tail(s) ELSE s

\* the digits of a literal, its underscores dropped
RECURSIVE DropUnderscores(_)
DropUnderscores(s) ==
    IF Len(s) = 0 THEN <<>>
    ELSE IF s[1] = "_" THEN DropUnderscores(Tail(s))
    ELSE <<s[1]>> \o DropUnderscores(Tail(s))

\* what int() accepts from a string: blanks, a sign, then digits that single
\* underscores may separate
IntLiteral(s) ==
    LET u == Unsigned(Strip(s)) IN
    /\ Len(u) > 0
    /\ \A i \in 1..Len(u) : u[i] \in Digits \cup {"_"}
    /\ u[1] # "_" /\ u[Len(u)] # "_"
    /\ \A i \in 1..(Len(u) - 1) : ~(u[i] = "_" /\ u[i + 1] = "_")

\* int(s) of such a string
PyInt(s) ==
    LET t == Strip(s)
        n == ParseInt(DropUnderscores(Unsigned(t)))
    IN IF t[1] = "-" THEN 0 - n ELSE n

\* int(x) raises TypeError for a list, a dict or a keys view and ValueError
\* for a string that is no integer literal
IntOk(x) == x.kind = "str" /\ IntLiteral(x.s)

EvalEquals(operator, value, data) ==
    LET equals == operator = "0" IN
    IF value.kind = "dict" /\ data.kind = "dict"
    THEN IF value.tag \in DOMAIN data.map /\ value.s = data.map[value.tag]
         THEN Bool(equals) ELSE Bool(~equals)
    ELSE IF PyIn(value, data) /\ data.kind = "list" THEN Bool(equals)
    ELSE IF PyEq(value, data) THEN Bool(equals)
    ELSE Bool(~equals)

EvalContains(operator, value, data) ==
    LET contains == operator = "2" IN
    IF value.kind = "dict" /\ data.kind = "dict"
    THEN IF value.tag \in DOMAIN data.map
            /\ IsSubstring(value.s, data.map[value.tag])
         THEN Bool(contains) ELSE Bool(~contains)
    ELSE IF PyIn(value, data) THEN Bool(contains)
    ELSE Bool(~contains)

\* lines 82-92 with the test for equal operands left out
EvalCompare_NoEqual(operator, value, data) ==
    LET greater == operator # "5" IN
    IF ~(IntOk(value) /\ IntOk(data)) THEN "Error"
    ELSE IF PyInt(value.s) < PyInt(data.s) THEN Bool(~greater)
    ELSE Bool(greater)

EvalCompare(operator, value, data) ==
    LET greater == operator # "5" IN
    IF ~(IntOk(value) /\ IntOk(data)) THEN "Error"
    ELSE IF PyInt(value.s) < PyInt(data.s) THEN Bool(~greater)
    ELSE IF PyInt(value.s) = PyInt(data.s) THEN "True"
    ELSE Bool(greater)

\* "True", "False", "None" (the function falls off its end) or "Error"
EvalCondition(operator, value, data) ==
    IF operator \in {"0", "1"} THEN EvalEquals(operator, value, data)
    ELSE IF operator \in {"2", "3"} THEN EvalContains(operator, value, data)
    ELSE IF operator \in {"5", "6"} THEN EvalCompare(operator, value, data)
    ELSE "None"

----------------------------------------------------------------------------
(* eval(eval_formula) *)

FormulaOps == {"&", "|", "!", "(", ")"}

\* nesting depth of parentheses in front of position i
RECURSIVE Depth(_, _)
Depth(f, i) ==
    IF i <= 1 THEN 0
    ELSE Depth(f, i - 1)
         + (IF f[i - 1] = "(" THEN 1 ELSE IF f[i - 1] = ")" THEN -1 ELSE 0)

TopLevel(f, sym) == {i \in 1..Len(f) : f[i] = sym /\ Depth(f, i) = 0}

Min(S) == CHOOSE x \in S : \A y \in S : x <= y

Truthy(v) == v = "True"

\* a name evaluates to a value only if it is one of the three literals
NameValue(name) ==
    IF name = PyTrue THEN "True"
    ELSE IF name = PyFalse THEN "False"
    ELSE IF name = PyNone THEN "None"
    ELSE "Error"

\* Python's evaluation of a boolean expression: `or` and `and` yield one of
\* their operands and evaluate the right one only when needed
RECURSIVE PyEval(_)
PyEval(f) ==
    IF Len(f) = 0 THEN "Error"
    ELSE IF TopLevel(f, "|") # {} THEN
        LET i == Min(TopLevel(f, "|"))
            l == PyEval(SubSeq(f, 1, i - 1))
        IN IF l = "Error" \/ Truthy(l) THEN l
           ELSE PyEval(SubSeq(f, i + 1, Len(f)))
    ELSE IF TopLevel(f, "&") # {} THEN
        LET i == Min(TopLevel(f, "&"))
            l == PyEval(SubSeq(f, 1, i - 1))
        IN IF l = "Error" \/ ~Truthy(l) THEN l
           ELSE PyEval(SubSeq(f, i + 1, Len(f)))
    ELSE IF f[1] = "!" THEN
        LET v == PyEval(Tail(f))
        IN IF v = "Error" THEN v ELSE Bool(~Truthy(v))
    ELSE IF f[1] = "(" /\ f[Len(f)] = ")" THEN PyEval(SubSeq(f, 2, Len(f) - 1))
    ELSE IF \A i \in 1..Len(f) : f[i] \notin FormulaOps THEN NameValue(f)
    ELSE "Error"

----------------------------------------------------------------------------
(* Trigger.select_actions *)

SkippedTypes == {"6", "16"}

\* line 133-134: a tag-value condition gets the {tag, value} pair
ConditionValue(c) ==
    IF c.conditiontype = "26" THEN TagValue(c.value2, c.value)
    ELSE StrValue(c.value)

\* lines 130-139: condition_check in insertion order, as <<formulaid, result>>;
\* a condition whose type is not in the table leaves no entry
RECURSIVE ConditionCheck(_, _)
ConditionCheck(t, conds) ==
    IF Len(conds) = 0 THEN <<>>
    ELSE LET c == conds[1]
             rest == ConditionCheck(t, Tail(conds))
         IN IF c.conditiontype \in SkippedTypes
            THEN <<<<c.formulaid, "True">>>> \o rest
            ELSE IF c.conditiontype \in ConditionTypes
            THEN <<<<c.formulaid,
                     EvalCondition(c.operator, ConditionValue(c),
                                   Conditions(t)[c.conditiontype])>>>> \o rest
            ELSE rest

\* lines 140-141
RECURSIVE Substitute(_, _)
Substitute(formula, check) ==
    IF Len(check) = 0 THEN formula
    ELSE Substitute(Replace(formula, check[1][1], PyStr(check[1][2])),
                    Tail(check))

\* what select_actions does with one action: "selected", "skipped" or "error"
SelectAction(t, a) ==
    IF Len(a.conditions) = 0 THEN "selected"
    ELSE LET check == ConditionCheck(t, a.conditions) IN
         IF \E i \in 1..Len(check) : check[i][2] = "Error" THEN "error"
         ELSE LET v == PyEval(Substitute(a.eval_formula, check)) IN
              IF v = "Error" THEN "error"
              ELSE IF Truthy(v) THEN "selected" ELSE "skipped"

\* condition_check as far as it was filled when an evaluation raised
RECURSIVE UntilError(_)
UntilError(check) ==
    IF Len(check) = 0 \/ check[1][2] = "Error" THEN <<>>
    ELSE <<check[1]>> \o UntilError(Tail(check))

----------------------------------------------------------------------------
(* Inputs of the filter evaluation *)

G1 == <<"2">>
G2 == <<"4">>
Env == <<"e", "n", "v">>
Prod == <<"p", "r", "o", "d">>
Pro == <<"p", "r", "o">>
EventName == <<"a", "b">>

TriggerInputs ==
    [hostgroups : {<<G2>>, <<G1, G2>>},
     hosts : {<<<<"1", "0">>>>},
     triggerid : {<<"7">>},
     event_name : {EventName},
     priority : {<<"2">>, <<"3">>, <<"4">>},
     templates : {<<>>},
     tags : {<<>>, Env :> Prod, Env :> Pro}]

Cond(ct, op, value, value2) ==
    [conditiontype |-> ct, operator |-> op, value |-> value, value2 |-> value2]

TimePeriod == Cond("6", "10", <<"1", "-", "7">>, <<>>)

\* one condition of every kind the evaluation distinguishes
CondPool ==
    { Cond("0", "0", G1, <<>>), Cond("0", "1", G1, <<>>),
      Cond("2", "0", <<"7">>, <<>>),
      Cond("3", "0", EventName, <<>>), Cond("3", "0", <<"b">>, <<>>),
      Cond("3", "2", <<"b">>, <<>>), Cond("3", "3", <<"b">>, <<>>),
      Cond("4", "0", <<"3">>, <<>>), Cond("4", "1", <<"3">>, <<>>),
      Cond("4", "5", <<"3">>, <<>>), Cond("4", "6", <<"3">>, <<>>),
      Cond("4", "5", <<"x">>, <<>>), Cond("4", "6", <<"x">>, <<>>),
      Cond("0", "5", G1, <<>>),
      Cond("4", "5", <<"-", "1">>, <<>>), Cond("4", "6", <<"-", "1">>, <<>>),
      Cond("4", "6", <<"3", " ">>, <<>>), Cond("4", "5", <<>>, <<>>),
      Cond("3", "6", <<"3">>, <<>>), Cond("26", "5", <<"3">>, Env),
      Cond("25", "0", Env, <<>>), Cond("25", "1", Env, <<>>),
      Cond("25", "2", Env, <<>>),
      Cond("26", "0", Prod, Env), Cond("26", "1", Prod, Env),
      Cond("26", "2", Pro, Env),
      TimePeriod, Cond("16", "11", <<>>, <<>>),
      Cond("3", "8", <<"b">>, <<>>), Cond("99", "0", G1, <<>>) }

\* the conditions of filters of several conditions
PairPool ==
    { Cond("0", "0", G1, <<>>), Cond("25", "0", Env, <<>>),
      Cond("26", "1", Prod, Env), Cond("4", "5", <<"3">>, <<>>),
      Cond("4", "6", <<"x">>, <<>>), TimePeriod,
      Cond("3", "8", <<"b">>, <<>>), Cond("99", "0", G1, <<>>) }

\* the conditions of long filters
ChainPool == { Cond("0", "0", G1, <<>>), TimePeriod }

Letters ==
    <<"A", "B", "C", "D", "E", "F", "G", "H", "I", "J", "K", "L", "M",
      "N", "O", "P", "Q", "R", "S", "T", "U", "V", "W", "X", "Y", "Z">>

\* the formula-id of the i-th condition
FormulaId(i) == <<Letters[i]>>

WithIds(cs) ==
    [i \in 1..Len(cs) |->
        [formulaid |-> FormulaId(i), conditiontype |-> cs[i].conditiontype,
         operator |-> cs[i].operator, value |-> cs[i].value,
         value2 |-> cs[i].value2]]

RECURSIVE JoinIds(_, _, _)
JoinIds(from, to, sym) ==
    IF from > to THEN <<>>
    ELSE IF from = to THEN FormulaId(from)
    ELSE FormulaId(from) \o <<sym>> \o JoinIds(from + 1, to, sym)

\* the formula of a filter of n conditions: the and-chain, the or-chain, or
\* "not A", "A and not B", "(A or B) and C and ..."
FormulaShapes == {"and", "or", "mixed"}

Formula(shape, n) ==
    IF shape = "and" THEN JoinIds(1, n, "&")
    ELSE IF shape = "or" THEN JoinIds(1, n, "|")
    ELSE IF n = 1 THEN <<"!">> \o FormulaId(1)
    ELSE IF n = 2 THEN FormulaId(1) \o <<"&", "!">> \o FormulaId(2)
    ELSE <<"(">> \o JoinIds(1, 2, "|") \o <<")", "&">> \o JoinIds(3, n, "&")

SeqsUpTo(S, lo, hi) == UNION {[1..n -> S] : n \in lo..hi}

Filters(css) ==
    {[conditions |-> WithIds(cs), eval_formula |-> Formula(shape, Len(cs))] :
        cs \in css, shape \in FormulaShapes}

NoFilter == [conditions |-> <<>>, eval_formula |-> <<>>]

ActionInputs ==
    {NoFilter}
    \cup Filters(SeqsUpTo(CondPool, 1, 1))
    \cup Filters(SeqsUpTo(PairPool, 2, MaxConds))
    \cup Filters(SeqsUpTo(ChainPool, MaxConds + 1, MaxChain))

---------------------------------------------------------------------------------------------------------------------------------------------------
(* The parts of the state a specification does not use stay idle *)

NoAction ==
    [actionid |-> <<>>, esc_period |-> <<>>, operations |-> <<>>,
     update_operations |-> <<>>, recovery_operations |-> <<>>]

NoTrigger ==
    [hostgroups |-> <<>>, hosts |-> <<>>, triggerid |-> <<>>,
     event_name |-> <<>>, priority |-> <<>>, templates |-> <<>>, tags |-> <<>>]

IdleSelect ==
    /\ trigger = NoTrigger
    /\ act = NoFilter
    /\ cond_check = <<>>
    /\ act_result = "none"

IdleOps ==
    /\ action = NoAction
    /\ mediatypes = <<>>
    /\ operations = <<>>

\* app.py:7-9
Defaults == [server |-> "127.0.0.1", username |-> "Admin", password |-> "zabbix"]

IdleIdx ==
    /\ ZABBIX_SERVER = Defaults.server
    /\ ZABBIX_USER = Defaults.username
    /\ ZABBIX_PASSWORD = Defaults.password
    /\ req = <<>>
    /\ triggers = <<>>
    /\ cursor = 0

IdleRcp ==
    /\ users = <<>>
    /\ usergroups = <<>>
    /\ recipients = <<>>
    /\ user_groups = <<>>
    /\ groupids = {}

----------------------------------------------------------------------------
(* Specification of the filter evaluation: one pass of the loop of         *)
(* select_actions over an action of the snapshot.  The passes are          *)
(* independent: conditions and condition_check are rebuilt in each pass,   *)
(* and eval_formula is assigned in every pass that uses it.                *)

InitSelect ==
    /\ pc = "select"
    /\ trigger \in TriggerInputs
    /\ act \in ActionInputs
    /\ cond_check = <<>>
    /\ act_result = "none"
    /\ IdleOps
    /\ messages = <<>>
    /\ IdleRcp
    /\ IdleIdx

SelectActions ==
    /\ pc = "select"
    /\ LET r == SelectAction(trigger, act) IN
        /\ cond_check' = UntilError(ConditionCheck(trigger, act.conditions))
        /\ act_result' = r
        /\ pc' = IF r = "error" THEN "error" ELSE "done"
    /\ UNCHANGED <<trigger, act, opsVars, messages, rcpVars, idxVars>>

NextSelect == SelectActions

SpecSelect == InitSelect /\ [][NextSelect]_vars

----------------------------------------------------------------------------
(* Claims about the filter evaluation *)

FilterDone == pc \in {"done", "error"}

ConditionOf(id) ==
    CHOOSE c \in {act.conditions[i] : i \in 1..Len(act.conditions)} :
        c.formulaid = id

FormulaIds == {act.conditions[i].formulaid : i \in 1..Len(act.conditions)}

RecognizedOperators == {"0", "1", "2", "3", "5", "6"}

TableData(c) == Conditions(trigger)[c.conditiontype]

\* the result of a condition taken by itself
OwnResult(c) ==
    IF c.conditiontype \in SkippedTypes THEN "True"
    ELSE EvalCondition(c.operator, ConditionValue(c), TableData(c))

\* a condition the evaluation knows how to decide
Decidable(c) ==
    \/ c.conditiontype \in SkippedTypes
    \/ /\ c.conditiontype \in ConditionTypes
       /\ c.operator \in RecognizedOperators
       /\ OwnResult(c) \in {"True", "False"}

\* the value of a formula when every formula-id token stands for the
\* result of its own condition
RECURSIVE FormulaValue(_)
FormulaValue(f) ==
    IF TopLevel(f, "|") # {} THEN
        LET i == Min(TopLevel(f, "|"))
        IN FormulaValue(SubSeq(f, 1, i - 1))
           \/ FormulaValue(SubSeq(f, i + 1, Len(f)))
    ELSE IF TopLevel(f, "&") # {} THEN
        LET i == Min(TopLevel(f, "&"))
        IN FormulaValue(SubSeq(f, 1, i - 1))
           /\ FormulaValue(SubSeq(f, i + 1, Len(f)))
    ELSE IF f[1] = "!" THEN ~FormulaValue(Tail(f))
    ELSE IF f[1] = "(" THEN FormulaValue(SubSeq(f, 2, Len(f) - 1))
    ELSE OwnResult(ConditionOf(f)) = "True"

\* C1: an action is selected iff it has no filter conditions or its
\* eval_formula is true when every formula-id is replaced by the boolean
\* result of its own condition, for any number of conditions.
C1_SelectedIffFormulaTrue ==
    (FilterDone /\ \A id \in FormulaIds : Decidable(ConditionOf(id)))
        => (act_result = "selected"
              <=> (Len(act.conditions) = 0 \/ FormulaValue(act.eval_formula)))

\* what the claim takes operator equal to mean for the attribute of a type
ExpectedEqual(c) ==
    CASE c.conditiontype = "26" ->
            c.value2 \in DOMAIN trigger.tags /\ trigger.tags[c.value2] = c.value
      [] c.conditiontype = "25" -> c.value \in DOMAIN trigger.tags
      [] c.conditiontype \in {"0", "1", "2", "13"} ->
            InSeq(c.value, TableData(c).items)
      [] c.conditiontype \in {"3", "4"} -> c.value = TableData(c).s

\* C2: operator equal is true iff the tag pair matches exactly, or the value
\* is a member of the set/sequence attribute (host groups, hosts, trigger
\* id, templates, tag names), or the value equals the scalar; operator
\* not-equal is the exact negation.
C2_EqualOperators ==
    FilterDone =>
        \A i \in 1..Len(cond_check) :
            LET c == ConditionOf(cond_check[i][1]) IN
            (c.conditiontype \in ConditionTypes /\ c.operator \in {"0", "1"})
                => cond_check[i][2]
                     = Bool(IF c.operator = "0" THEN ExpectedEqual(c)
                            ELSE ~ExpectedEqual(c))

Unrecognized(c) ==
    \/ c.conditiontype \notin (ConditionTypes \cup SkippedTypes)
    \/ /\ c.conditiontype \in ConditionTypes
       /\ c.operator \notin RecognizedOperators

\* C5: a condition with an unrecognized operator code or an unrecognized
\* condition-type code makes the evaluation of the action end in an error,
\* never in a selected or not-selected action.
C5_UnrecognizedCodeIsError ==
    (FilterDone /\ \E id \in FormulaIds : Unrecognized(ConditionOf(id)))
        => act_result = "error"

----------------------------------------------------------------------------
(* Message.__init__ *)

\* the length of the run of digits at the head of s
RECURSIVE DigitRun(_)
DigitRun(s) ==
    IF Len(s) = 0 \/ s[1] \notin Digits THEN 0 ELSE 1 + DigitRun(Tail(s))

\* re.sub(r"(\d+)", lambda m: str(int(m.group(1)) * multiplier), time_str)
RECURSIVE MultiplyDigits(_, _)
MultiplyDigits(s, multiplier) ==
    IF Len(s) = 0 THEN <<>>
    ELSE IF s[1] \in Digits
    THEN LET n == DigitRun(s) IN
         IntToStr(ParseInt(SubSeq(s, 1, n)) * multiplier)
            \o MultiplyDigits(SubSeq(s, n + 1, Len(s)), multiplier)
    ELSE <<s[1]>> \o MultiplyDigits(Tail(s), multiplier)

\* the multiplication without the collapse of a leading zero
multiply_time_NoCollapse(time_str, multiplier) ==
    MultiplyDigits(time_str, multiplier)

multiply_time(time_str, multiplier) ==
    LET result == MultiplyDigits(time_str, multiplier) IN
    IF result[1] = "0" THEN <<"0">> ELSE result

Infinite == <<"&", "i", "n", "f", "i", "n", ";">>

\* operation.get(key, default) for the escalation keys, which only some
\* operations carry (has_esc)
GetEscPeriod(operation) ==
    IF operation.has_esc THEN operation.esc_period ELSE <<"0">>
GetStepFrom(operation) ==
    IF operation.has_esc THEN operation.esc_step_from ELSE <<"1">>
GetStepTo(operation) ==
    IF operation.has_esc THEN operation.esc_step_to ELSE <<"0">>

MessageEscPeriod(a, operation) ==
    IF GetEscPeriod(operation) = <<"0">> THEN a.esc_period
    ELSE GetEscPeriod(operation)

RepeatCount(optype, operation) ==
    IF GetStepTo(operation) # <<"0">>
    THEN IntToStr(ParseInt(operation.esc_step_to)
                  - ParseInt(operation.esc_step_from) + 1)
    ELSE IF optype # "0" THEN <<"1">>
    ELSE Infinite

Message(optype, a, operation) ==
    [optype |-> optype,
     actionid |-> a.actionid,
     operationid |-> operation.operationid,
     mediatypeid |-> operation.mediatypeid,
     users |-> operation.opmessage_usr,
     groups |-> operation.opmessage_grp,
     recipients |-> <<>>,
     esc_period |-> MessageEscPeriod(a, operation),
     esc_step_from |-> multiply_time(MessageEscPeriod(a, operation),
                                     ParseInt(GetStepFrom(operation)) - 1),
     repeat_count |-> RepeatCount(optype, operation)]

----------------------------------------------------------------------------
(* Trigger.check_operations *)

optype_mapping(optype) ==
    CASE optype = "operations" -> "0"
      [] optype = "recovery_operations" -> "1"
      [] optype = "update_operations" -> "2"

\* borrowing from every other list, the recovery list included
BorrowKeys_AllOthers(optype) ==
    SelectSeq(<<"operations", "update_operations", "recovery_operations">>,
              LAMBDA k : k # optype)

\* line 198: the lists a "notify all involved" operation borrows from
BorrowKeys(optype) ==
    SelectSeq(<<"operations", "update_operations">>, LAMBDA k : k # optype)

SendOps(ops) == SelectSeq(ops, LAMBDA o : o.operationtype = "0")

RemoveAt(s, i) == SubSeq(s, 1, i - 1) \o SubSeq(s, i + 1, Len(s))

\* a clone that keeps the escalation bounds of the borrowed operation
Clone_BorrowedSteps(op_template, op) ==
    [op EXCEPT !.operationid = op_template.operationid]

\* lines 204-210: the template with the borrowed recipients and media type
Clone(op_template, op) ==
    [op_template EXCEPT !.operationtype = "0",
                        !.opmessage_usr = op.opmessage_usr,
                        !.opmessage_grp = op.opmessage_grp,
                        !.mediatypeid = op.mediatypeid]

RECURSIVE ClonesFrom(_, _, _)
ClonesFrom(op_template, a, keys) ==
    IF Len(keys) = 0 THEN <<>>
    ELSE LET sends == SendOps(a[keys[1]]) IN
         [i \in 1..Len(sends) |-> Clone(op_template, sends[i])]
            \o ClonesFrom(op_template, a, Tail(keys))

\* lines 191-211: enumerate() walks the list by index while the body
\* deletes the current element and appends the clones
RECURSIVE ExpandNotifyAll(_, _, _, _)
ExpandNotifyAll(ops, idx, a, optype) ==
    IF idx > Len(ops) THEN ops
    ELSE IF ops[idx].operationtype \notin {"11", "12"}
    THEN ExpandNotifyAll(ops, idx + 1, a, optype)
    ELSE ExpandNotifyAll(
            RemoveAt(ops, idx) \o ClonesFrom(ops[idx], a, BorrowKeys(optype)),
            idx + 1, a, optype)

\* a fan-out that leaves the wildcard in the operation
FanOut_Unpinned(optype, a, operation, mts) ==
    IF operation.mediatypeid = <<"0">>
    THEN [i \in 1..Len(mts) |-> Message(optype_mapping(optype), a, operation)]
    ELSE <<Message(optype_mapping(optype), a, operation)>>

\* lines 218-231: the messages of one send-message operation
FanOut(optype, a, operation, mts) ==
    IF operation.mediatypeid = <<"0">>
    THEN [i \in 1..Len(mts) |->
            Message(optype_mapping(optype), a,
                    [operation EXCEPT !.mediatypeid = mts[i]])]
    ELSE <<Message(optype_mapping(optype), a, operation)>>

\* lines 213-231
RECURSIVE MessagesOf(_, _, _, _)
MessagesOf(optype, a, ops, mts) ==
    IF Len(ops) = 0 THEN <<>>
    ELSE (IF ops[1].operationtype # "0" THEN <<>>
          ELSE FanOut(optype, a, ops[1], mts))
         \o MessagesOf(optype, a, Tail(ops), mts)

\* line 188: the loops work on a deep copy, so that nothing they do to the
\* list or to its operations reaches the action
WorkingList(a, optype) == [ops |-> a[optype], aliased |-> FALSE]

\* the operation as the second loop leaves it: a wildcard target is
\* overwritten by the id of the last media type
Pinned(operation, mts) ==
    IF operation.operationtype = "0" /\ operation.mediatypeid = <<"0">>
       /\ Len(mts) > 0
    THEN [operation EXCEPT !.mediatypeid = mts[Len(mts)]]
    ELSE operation

ActionAfter(a, optype, w, expanded, mts) ==
    IF w.aliased
    THEN [a EXCEPT ![optype] = [i \in 1..Len(expanded) |-> Pinned(expanded[i], mts)]]
    ELSE a

----------------------------------------------------------------------------
(* Inputs of the operation expansion *)

U1 == <<"1">>
U2 == <<"2">>
U3 == <<"3">>
GA == <<"7">>
Wildcard == <<"0">>

Op(type, has_esc, period, from, to, media, usr, grp) ==
    [operationid |-> <<>>, operationtype |-> type, has_esc |-> has_esc,
     esc_period |-> period, esc_step_from |-> from, esc_step_to |-> to,
     mediatypeid |-> media, opmessage_usr |-> usr, opmessage_grp |-> grp]

\* problem operations carry their escalation period and steps
ProblemMenu ==
    { Op("0", TRUE, <<"0">>, <<"1">>, <<"1">>, <<"1">>, <<U1>>, <<>>),
      Op("0", TRUE, <<"3", "0", "m">>, <<"2">>, <<"5">>, Wildcard, <<>>, <<GA>>),
      Op("0", TRUE, <<"1", "h", "3", "0", "m">>, <<"3">>, <<"0">>, <<"3">>,
         <<U2>>, <<>>) }

\* update and recovery operations carry none
UpdateMenu ==
    { Op("0", FALSE, <<>>, <<>>, <<>>, <<"2">>, <<U2>>, <<>>),
      Op("0", FALSE, <<>>, <<>>, <<>>, Wildcard, <<>>, <<GA>>),
      Op("12", FALSE, <<>>, <<>>, <<>>, Wildcard, <<>>, <<>>) }

RecoveryMenu ==
    { Op("0", FALSE, <<>>, <<>>, <<>>, <<"1">>, <<U3>>, <<>>),
      Op("11", FALSE, <<>>, <<>>, <<>>, Wildcard, <<>>, <<>>) }

\* operation ids are unique within the action
WithOperationIds(prefix, ops) ==
    [i \in 1..Len(ops) |->
        [ops[i] EXCEPT !.operationid = <<prefix>> \o NatToStr(i)]]

ActionPeriod == <<"1", "h">>

ActionOpsInputs ==
    {[actionid |-> <<"5">>, esc_period |-> ActionPeriod,
      operations |-> WithOperationIds("1", p),
      update_operations |-> WithOperationIds("2", u),
      recovery_operations |-> WithOperationIds("3", r)] :
        p \in SeqsUpTo(ProblemMenu, 0, MaxOps),
        u \in SeqsUpTo(UpdateMenu, 0, MaxOps),
        r \in SeqsUpTo(RecoveryMenu, 0, MaxOps)}

\* the active media types have the ids "1", "2", ...
MediaTypeInputs == {[i \in 1..n |-> NatToStr(i)] : n \in 0..MaxMedia}

----------------------------------------------------------------------------
(* Specification of the operation expansion: select_operations calls       *)
(* check_operations for the problem, the update and the recovery list of   *)
(* a selected action                                                       *)

InitOps ==
    /\ pc = "operations"
    /\ action \in ActionOpsInputs
    /\ mediatypes \in MediaTypeInputs
    /\ operations = <<>>
    /\ messages = <<>>
    /\ IdleSelect
    /\ IdleRcp
    /\ IdleIdx

CheckOperations(optype, next) ==
    /\ pc = optype
    /\ LET w == WorkingList(action, optype)
           expanded == ExpandNotifyAll(w.ops, 1, action, optype)
       IN /\ operations' = expanded
          /\ messages' = messages
                \o MessagesOf(optype, action, expanded, mediatypes)
          /\ action' = ActionAfter(action, optype, w, expanded, mediatypes)
    /\ pc' = next
    /\ UNCHANGED <<mediatypes, selectVars, rcpVars, idxVars>>

NextOps ==
    \/ CheckOperations("operations", "update_operations")
    \/ CheckOperations("update_operations", "recovery_operations")
    \/ CheckOperations("recovery_operations", "done")

SpecOps == InitOps /\ [][NextOps]_vars

----------------------------------------------------------------------------
(* Claims about the operation expansion *)

Range(s) == {s[i] : i \in 1..Len(s)}

\* the list check_operations has just worked on
LastChecked ==
    CASE pc = "update_operations" -> "operations"
      [] pc = "recovery_operations" -> "update_operations"
      [] pc = "done" -> "recovery_operations"
      [] OTHER -> "none"

NotifyAllOps(ops) == SelectSeq(ops, LAMBDA o : o.operationtype \in {"11", "12"})

\* the send-message operations a notify-all operation of the list borrows
BorrowedOps(optype) ==
    IF optype = "operations" THEN SendOps(action.update_operations)
    ELSE IF optype = "update_operations" THEN SendOps(action.operations)
    ELSE SendOps(action.operations) \o SendOps(action.update_operations)

SameSteps(o, n) ==
    /\ o.has_esc = n.has_esc
    /\ o.esc_period = n.esc_period
    /\ o.esc_step_from = n.esc_step_from
    /\ o.esc_step_to = n.esc_step_to

IsCloneOf(o, n, b) ==
    /\ o.operationtype = "0"
    /\ o.operationid = n.operationid
    /\ SameSteps(o, n)
    /\ o.opmessage_usr = b.opmessage_usr
    /\ o.opmessage_grp = b.opmessage_grp
    /\ o.mediatypeid = b.mediatypeid

\* C3: every notify-all operation of a phase list, at any position, is
\* removed and replaced by one clone per borrowed send-message operation;
\* none is left, and the list holds (own send-message operations) +
\* (notify-all operations x borrowed send-message operations) operations.
C3_EveryNotifyAllExpanded ==
    LastChecked # "none" =>
        LET own == action[LastChecked]
            borrowed == BorrowedOps(LastChecked)
        IN /\ NotifyAllOps(operations) = <<>>
           /\ Len(operations)
                = Len(SendOps(own)) + Len(NotifyAllOps(own)) * Len(borrowed)
           /\ \A n \in Range(NotifyAllOps(own)) : \A b \in Range(borrowed) :
                \E o \in Range(operations) : IsCloneOf(o, n, b)

PhaseMessages(code) == SelectSeq(messages, LAMBDA m : m.optype = code)

\* the number of messages the claim gives a send-message operation
FanOutSize(o) == IF o.mediatypeid = Wildcard THEN Len(mediatypes) ELSE 1

RECURSIVE FanOutOffset(_, _)
FanOutOffset(ops, k) ==
    IF k <= 1 THEN 0
    ELSE FanOutOffset(ops, k - 1) + FanOutSize(ops[k - 1])

\* C7: a send-message operation with the wildcard media target gives exactly
\* one message per active media type, each with its own active media type
\* id and never "0"; any other gives exactly one message with the
\* operation's target.
C7_WildcardFanOut ==
    LastChecked # "none" =>
        LET sends == SendOps(operations)
            ms == PhaseMessages(optype_mapping(LastChecked))
        IN /\ Len(ms) = FanOutOffset(sends, Len(sends) + 1)
           /\ \A k \in 1..Len(sends) :
                LET block == (FanOutOffset(sends, k) + 1)
                                ..(FanOutOffset(sends, k) + FanOutSize(sends[k]))
                IN /\ \A j \in block : ms[j].operationid = sends[k].operationid
                   /\ IF sends[k].mediatypeid = Wildcard
                      THEN /\ \A j \in block :
                                /\ ms[j].mediatypeid \in Range(mediatypes)
                                /\ ms[j].mediatypeid # Wildcard
                           /\ \A i, j \in block :
                                i # j => ms[i].mediatypeid # ms[j].mediatypeid
                      ELSE \A j \in block :
                                ms[j].mediatypeid = sends[k].mediatypeid

C7_Witness ==
    /\ pc = "done"
    /\ Len(mediatypes) = 2
    /\ \E o \in Range(operations) : o.mediatypeid = Wildcard
    /\ \E o \in Range(operations) : o.mediatypeid = <<"1">>
    /\ \E i, j \in 1..Len(messages) :
        /\ messages[i].optype = "1" /\ messages[j].optype = "1"
        /\ messages[i].operationid = messages[j].operationid
        /\ messages[i].mediatypeid = <<"1">>
        /\ messages[j].mediatypeid = <<"2">>

\* the scenario of the claim: recovery holds only a notify-all operation,
\* problem one send-message operation on one media type, update one on
\* another
AsymmetryScenario ==
    /\ Len(action.recovery_operations) = 1
    /\ action.recovery_operations[1].operationtype = "11"
    /\ Len(action.operations) = 1
    /\ Len(action.update_operations) = 1
    /\ action.update_operations[1].operationtype = "0"
    /\ action.operations[1].mediatypeid # Wildcard
    /\ action.update_operations[1].mediatypeid # Wildcard

TakenFrom(m, ops) ==
    \E o \in Range(SendOps(ops)) :
        /\ m.users = o.opmessage_usr
        /\ m.groups = o.opmessage_grp
        /\ (o.mediatypeid = Wildcard \/ m.mediatypeid = o.mediatypeid)

AsymmetryInv ==
    pc = "done" =>
        /\ AsymmetryScenario =>
            /\ Len(PhaseMessages("1")) = 2
            /\ PhaseMessages("1")[1].mediatypeid = action.operations[1].mediatypeid
            /\ PhaseMessages("1")[2].mediatypeid
                = action.update_operations[1].mediatypeid
            /\ Len(PhaseMessages("0")) = 1
            /\ Len(PhaseMessages("2")) = 1
        /\ \A m \in Range(PhaseMessages("0")) \cup Range(PhaseMessages("2")) :
            TakenFrom(m, action.operations \o action.update_operations)

\* C8: borrowing is asymmetric: in the scenario the recovery phase gives
\* exactly two messages, on the media types of the problem and the update
\* operation, and problem and update one each; no problem or update message
\* is cloned from a recovery operation; the expansion leaves the action's
\* operation lists as they were.
C8_AsymmetricBorrowing == []AsymmetryInv /\ [][action' = action]_vars

C8_Witness ==
    /\ pc = "done"
    /\ AsymmetryScenario
    /\ Len(PhaseMessages("1")) = 2
    /\ PhaseMessages("1")[1].users # PhaseMessages("1")[2].users

\* the operation of the action a message was built for: its own
\* send-message operation, or the notify-all operation it was cloned for
ListOf(code) ==
    CASE code = "0" -> "operations"
      [] code = "1" -> "recovery_operations"
      [] code = "2" -> "update_operations"

SourceOp(m) ==
    CHOOSE o \in Range(action[ListOf(m.optype)]) : o.operationid = m.operationid

StepFrom(o) == IF o.has_esc THEN ParseInt(o.esc_step_from) ELSE 1
StepTo(o) == IF o.has_esc THEN ParseInt(o.esc_step_to) ELSE 0

\* C9: repeat_count is finalStep - startStep + 1 when the operation has a
\* non-zero final step, else "1" in the update and recovery phases and the
\* infinite sentinel in the problem phase; a message cloned for a notify-all
\* operation follows the step bounds of that operation.
C9_RepeatCount ==
    \A m \in Range(messages) :
        LET o == SourceOp(m) IN
        m.repeat_count =
            IF StepTo(o) # 0 THEN IntToStr(StepTo(o) - StepFrom(o) + 1)
            ELSE IF m.optype \in {"1", "2"} THEN <<"1">>
            ELSE Infinite

C9_Witness ==
    /\ pc = "done"
    /\ \E m \in Range(messages) : m.optype = "0" /\ m.repeat_count = <<"4">>
    /\ \E m \in Range(messages) : m.optype = "0" /\ m.repeat_count = Infinite
    /\ \E m \in Range(messages) :
        /\ m.optype = "1"
        /\ SourceOp(m).operationtype = "11"
        /\ m.groups = <<GA>>
        /\ m.repeat_count = <<"1">>

\* a period string cut into its maximal runs of digits and of other
\* characters
RECURSIVE Runs(_)
Runs(s) ==
    IF Len(s) = 0 THEN <<>>
    ELSE LET isd == s[1] \in Digits
             n == CHOOSE k \in 1..Len(s) :
                    /\ \A i \in 1..k : (s[i] \in Digits) = isd
                    /\ (k = Len(s) \/ (s[k + 1] \in Digits) # isd)
         IN <<SubSeq(s, 1, n)>> \o Runs(SubSeq(s, n + 1, Len(s)))

RECURSIVE Flatten(_)
Flatten(ss) == IF Len(ss) = 0 THEN <<>> ELSE ss[1] \o Flatten(Tail(ss))

\* every numeric literal of the period multiplied by k
Multiplied(period, k) ==
    LET runs == Runs(period) IN
    Flatten([i \in 1..Len(runs) |->
                IF runs[i][1] \in Digits
                THEN IntToStr(ParseInt(runs[i]) * k) ELSE runs[i]])

ExpectedPeriod(o) ==
    IF o.has_esc /\ o.esc_period # <<"0">> THEN o.esc_period
    ELSE action.esc_period

\* C10: the start offset is the operation's escalation period, or the
\* action's when the operation has none or "0", with every numeric literal
\* multiplied by (start step - 1), collapsed to "0" when the result begins
\* with the digit 0; a start step of 1 or unset gives "0" for a period that
\* begins with a digit, and a start step s > 1 turns "Nu" into "(N*(s-1))u".
C10_EscalationStartOffset ==
    \A m \in Range(messages) :
        LET o == SourceOp(m)
            period == ExpectedPeriod(o)
            product == Multiplied(period, StepFrom(o) - 1)
        IN /\ m.esc_period = period
           /\ m.esc_step_from = IF product[1] = "0" THEN <<"0">> ELSE product
           /\ (StepFrom(o) = 1 /\ period[1] \in Digits)
                => m.esc_step_from = <<"0">>
           /\ (StepFrom(o) > 1 /\ Len(Runs(period)) = 2
               /\ period[1] \in Digits /\ ParseInt(Runs(period)[1]) > 0)
                => m.esc_step_from
                     = IntToStr(ParseInt(Runs(period)[1]) * (StepFrom(o) - 1))
                       \o Runs(period)[2]

C10_Witness ==
    /\ pc = "done"
    /\ \E m \in Range(messages) :
        m.esc_period = <<"1", "h", "3", "0", "m">>
        /\ m.esc_step_from = <<"2", "h", "6", "0", "m">>
    /\ \E m \in Range(messages) :
        m.esc_period = <<"3", "0", "m">> /\ m.esc_step_from = <<"3", "0", "m">>
    /\ \E m \in Range(messages) :
        m.esc_period = ActionPeriod /\ m.esc_step_from = <<"0">>

----------------------------------------------------------------------------
(* Recipient.__init__, get_trigger_recipients, Message.select_recipients *)

\* The identity of a Recipient object: the object get_trigger_recipients
\* keeps for a user, or the copy at a position of a message's recipients.
\* An assignment to an attribute of an object shows in every reference to it.
SharedObject(userid) == [user |-> userid, message |-> 0, position |-> 0]
CopiedObject(userid, at, i) == [user |-> userid, message |-> at, position |-> i]

\* mediatype and show are attributes the code adds later; an attribute that
\* is not there reads as false in the template
Recipient(user) ==
    [userid |-> user.userid,
     type |-> user.type,
     groups |-> Range(user.usrgrps),
     has_right |-> user.type = "3",
     permissions |-> {},
     sendto |-> user.medias,
     mediatype |-> FALSE,
     show |-> FALSE,
     obj |-> SharedObject(user.userid)]

\* app.py:164-168, 181-185: the host groups a rights list grants
GrantedRights(rights) ==
    {rights[i].id : i \in {j \in 1..Len(rights) : ParseInt(rights[j].permission) > 1}}

\* app.py:131-133
TargetedUsers == UNION {Range(messages[i].users) : i \in 1..Len(messages)}
TargetedGroups == UNION {Range(messages[i].groups) : i \in 1..Len(messages)}

\* app.py:158-168: the recipients of the directly targeted known users
DirectRecipients ==
    [u \in TargetedUsers \cap DOMAIN users |->
        [Recipient(users[u]) EXCEPT !.permissions =
            UNION {GrantedRights(usergroups[g].hostgroup_rights) :
                    g \in Range(users[u].usrgrps) \cap DOMAIN usergroups}]]

\* set.update(str) adds the characters of the string
CharsOf(s) == {<<s[i]>> : i \in 1..Len(s)}

\* app.py:175-185: the members of one targeted group, in order; the lookup
\* recipients[userid] at line 181 raises KeyError for a member that is
\* neither a recipient nor a known user
RECURSIVE PopulateMembers(_, _, _, _)
PopulateMembers(members, group, rcp, list) ==
    IF Len(members) = 0 THEN [recipients |-> rcp, list |-> list, error |-> FALSE]
    ELSE LET u == members[1]
             rcp1 == IF u \in DOMAIN rcp
                     THEN [rcp EXCEPT ![u].groups = @ \cup CharsOf(group.usrgrpid)]
                     ELSE IF u \in DOMAIN users
                     THEN rcp @@ (u :> Recipient(users[u]))
                     ELSE rcp
         IN IF u \notin DOMAIN rcp1
            THEN [recipients |-> rcp1, list |-> Append(list, u), error |-> TRUE]
            ELSE PopulateMembers(
                    Tail(members), group,
                    [rcp1 EXCEPT ![u].permissions =
                        @ \cup GrantedRights(group.hostgroup_rights)],
                    Append(list, u))

\* classes.py:352-354
RECURSIVE GroupMembers(_, _)
GroupMembers(gs, ug) ==
    IF Len(gs) = 0 THEN <<>>
    ELSE (IF gs[1] \in DOMAIN ug THEN ug[gs[1]] ELSE <<>>)
         \o GroupMembers(Tail(gs), ug)

\* classes.py:357 with the recipient taken as it is, not copied
deepcopy_Alias(recipient, at, i) == recipient

\* classes.py:357: a new object with the attributes of the recipient
deepcopy(recipient, at, i) ==
    [recipient EXCEPT !.obj = CopiedObject(recipient.userid, at, i)]

\* classes.py:345-360, for the message at position `at` of messages
select_recipients(m, ug, rcp, at) ==
    LET all == m.users \o GroupMembers(m.groups, ug)
        found == SelectSeq(all, LAMBDA u : u \in DOMAIN rcp)
    IN [m EXCEPT !.users = all,
                 !.recipients =
                    [i \in 1..Len(found) |->
                        [deepcopy(rcp[found[i]], at, i) EXCEPT !.mediatype =
                            @ \/ m.mediatypeid \in rcp[found[i]].sendto]]]

----------------------------------------------------------------------------
(* Inputs of the recipient resolution *)

GB == <<"1", "2">>
H1 == G1
H2 == G2

UserIds == {U1, U2, U3}
GroupIds == {GA, GB}

\* who is a member of which group; U1 and U2 are enabled users, U3 may be
\* a disabled one, which user.get does not return
MembershipInputs ==
    {m \in [UserIds -> SUBSET GroupIds] : m[U3] \subseteq {GA}}

UserType(u) == IF u = U1 THEN "1" ELSE IF u = U2 THEN "2" ELSE "3"
UserMedias(u) == IF u = U1 THEN {<<"1">>} ELSE IF u = U2 THEN {<<"1">>, <<"2">>} ELSE {}

\* a set of ids as the list the API returns
RECURSIVE SortedSeq(_)
SortedSeq(S) ==
    IF S = {} THEN <<>>
    ELSE LET x == CHOOSE y \in S :
                    \A z \in S : Len(y) < Len(z) \/ (Len(y) = Len(z) /\ ParseInt(y) <= ParseInt(z))
         IN <<x>> \o SortedSeq(S \ {x})

UsersOf(known, member) ==
    [u \in known |->
        [userid |-> u, type |-> UserType(u), usrgrps |-> SortedSeq(member[u]),
         medias |-> UserMedias(u)]]

Right(id, permission) == [id |-> id, permission |-> permission]

RightsInputs ==
    {[g \in GroupIds |-> IF g = GA THEN a ELSE b] :
        a \in {<<Right(H1, <<"3">>)>>, <<Right(H1, <<"2">>)>>, <<Right(H1, <<"0">>)>>},
        b \in {<<Right(H2, <<"3">>)>>, <<Right(H1, <<"0">>), Right(H2, <<"2">>)>>}}

UserGroupsOf(member, rights) ==
    [g \in GroupIds |->
        [usrgrpid |-> g,
         users |-> SortedSeq({u \in UserIds : g \in member[u]}),
         hostgroup_rights |-> rights[g]]]

\* the recipients and the media target of a message
TargetMenu ==
    { Op("0", FALSE, <<>>, <<>>, <<>>, <<"1">>, <<U1>>, <<>>),
      Op("0", FALSE, <<>>, <<>>, <<>>, <<"1">>, <<>>, <<GA>>),
      Op("0", FALSE, <<>>, <<>>, <<>>, <<"2">>, <<U1>>, <<GA>>),
      Op("0", FALSE, <<>>, <<>>, <<>>, <<"2">>, <<U3>>, <<GA, GB>>) }

MessageInputs ==
    {[i \in 1..Len(ops) |->
        Message("0", [actionid |-> <<"5">>, esc_period |-> ActionPeriod],
                WithOperationIds("1", ops)[i])] :
        ops \in SeqsUpTo(TargetMenu, 1, MaxMsgs)}

----------------------------------------------------------------------------
(* Specification of the recipient resolution: get_trigger_recipients from  *)
(* line 127 on.  The loop at line 171 walks a set, whose order Python      *)
(* does not fix: every order is taken.                                     *)

InitRcp ==
    /\ pc = "recipients"
    /\ messages \in MessageInputs
    /\ \E known \in {UserIds, UserIds \ {U3}}, member \in MembershipInputs,
          rights \in RightsInputs :
        /\ users = UsersOf(known, member)
        /\ usergroups = UserGroupsOf(member, rights)
    /\ recipients = <<>>
    /\ user_groups = <<>>
    /\ groupids = {}
    /\ IdleSelect
    /\ IdleOps
    /\ IdleIdx

\* app.py:127-168
BuildRecipients ==
    /\ pc = "recipients"
    /\ recipients' = DirectRecipients
    /\ groupids' = TargetedGroups
    /\ pc' = "groups"
    /\ UNCHANGED <<selectVars, opsVars, messages, users, usergroups, user_groups, idxVars>>

\* app.py:171-185, one pass of the loop
PopulateGroup ==
    /\ pc = "groups"
    /\ \E groupid \in groupids :
        /\ groupids' = groupids \ {groupid}
        /\ IF groupid \in DOMAIN usergroups
           THEN LET group == usergroups[groupid]
                    r == PopulateMembers(group.users, group, recipients, <<>>)
                IN /\ recipients' = r.recipients
                   /\ user_groups' = [g \in DOMAIN user_groups \cup {groupid} |->
                                        IF g = groupid THEN r.list ELSE user_groups[g]]
                   /\ pc' = IF r.error THEN "error" ELSE "groups"
           ELSE UNCHANGED <<recipients, user_groups, pc>>
    /\ UNCHANGED <<selectVars, opsVars, messages, users, usergroups, idxVars>>

\* app.py:188-191
SelectRecipients ==
    /\ pc = "groups"
    /\ groupids = {}
    /\ messages' = [i \in 1..Len(messages) |->
                        select_recipients(messages[i], user_groups, recipients, i)]
    /\ pc' = "returned"
    /\ UNCHANGED <<selectVars, opsVars, rcpVars, idxVars>>

NextRcp == BuildRecipients \/ PopulateGroup \/ SelectRecipients

SpecRcp == InitRcp /\ [][NextRcp]_vars

----------------------------------------------------------------------------
(* Claims about the recipient resolution *)

Resolved == pc = "returned"

\* the groups whose rights the claim gives a user: the user's own
\* memberships and the targeted groups that list the user as a member
GroupsOf(u) ==
    (Range(users[u].usrgrps) \cap DOMAIN usergroups)
    \cup {g \in TargetedGroups \cap DOMAIN usergroups :
            InSeq(u, usergroups[g].users)}

\* C4: after get_trigger_recipients every known user referenced by a
\* message, directly or through a targeted group, has as permission set the
\* union of the host groups granted by the user's own group memberships and
\* by the targeted groups the user was reached through; two users with the
\* same memberships get the same set however they were reached.
C4_PermissionUnion ==
    Resolved =>
        /\ \A u \in DOMAIN recipients :
            recipients[u].permissions
                = UNION {GrantedRights(usergroups[g].hostgroup_rights) :
                            g \in GroupsOf(u)}
        /\ \A u, v \in DOMAIN recipients :
            users[u].usrgrps = users[v].usrgrps
                => recipients[u].permissions = recipients[v].permissions

----------------------------------------------------------------------------
(* index: the connection parameters of a request.  A client either posts   *)
(* the form (server, username, password, hostid) and follows the redirect  *)
(* with a GET, or sends a lone GET with a hostid.  Requests of different   *)
(* clients are served concurrently; a step is one statement of index.      *)

Clients == 1..NumClients

NoForm == [server |-> "", username |-> "", password |-> ""]

FormInputs ==
    { [server |-> "zbx-a", username |-> "alice", password |-> "pw-a"],
      [server |-> "zbx-b", username |-> "bob", password |-> "pw-b"] }

NoLogin == [url |-> "", user |-> "", password |-> ""]

\* line: the statement the request is at; form: request.form; supplied:
\* what the client posted before the redirect; url: the zapi of line 215;
\* login: the parameters of the login of line 216
NewRequest ==
    [line |-> "idle", has_form |-> FALSE, form |-> NoForm, posted |-> FALSE,
     supplied |-> NoForm, url |-> "", login |-> NoLogin]

InitIdx ==
    /\ pc = "serving"
    /\ ZABBIX_SERVER = Defaults.server
    /\ ZABBIX_USER = Defaults.username
    /\ ZABBIX_PASSWORD = Defaults.password
    /\ req = [c \in Clients |-> NewRequest]
    /\ triggers = <<>>
    /\ cursor = 0
    /\ IdleSelect
    /\ IdleOps
    /\ messages = <<>>
    /\ IdleRcp

IdxFrame == UNCHANGED <<pc, selectVars, opsVars, messages, rcpVars, triggers, cursor>>

\* a POST with the form arrives
Post(c) ==
    /\ req[c].line = "idle"
    /\ \E f \in FormInputs :
        req' = [req EXCEPT ![c].line = "204", ![c].has_form = TRUE,
                           ![c].form = f, ![c].posted = TRUE,
                           ![c].supplied = f]
    /\ UNCHANGED <<ZABBIX_SERVER, ZABBIX_USER, ZABBIX_PASSWORD>>
    /\ IdxFrame

\* a lone GET with a hostid arrives
Get(c) ==
    /\ req[c].line = "idle"
    /\ req' = [req EXCEPT ![c].line = "204"]
    /\ UNCHANGED <<ZABBIX_SERVER, ZABBIX_USER, ZABBIX_PASSWORD>>
    /\ IdxFrame

\* request.form.get(key, default)
FormGet(r, key, default) == IF r.has_form THEN r.form[key] ELSE default

\* line 204
SetServer(c) ==
    /\ req[c].line = "204"
    /\ ZABBIX_SERVER' = FormGet(req[c], "server", ZABBIX_SERVER)
    /\ req' = [req EXCEPT ![c].line = "205"]
    /\ UNCHANGED <<ZABBIX_USER, ZABBIX_PASSWORD>>
    /\ IdxFrame

\* line 205
SetUser(c) ==
    /\ req[c].line = "205"
    /\ ZABBIX_USER' = FormGet(req[c], "username", ZABBIX_USER)
    /\ req' = [req EXCEPT ![c].line = "206"]
    /\ UNCHANGED <<ZABBIX_SERVER, ZABBIX_PASSWORD>>
    /\ IdxFrame

\* line 206
SetPassword(c) ==
    /\ req[c].line = "206"
    /\ ZABBIX_PASSWORD' = FormGet(req[c], "password", ZABBIX_PASSWORD)
    /\ req' = [req EXCEPT ![c].line = "208"]
    /\ UNCHANGED <<ZABBIX_SERVER, ZABBIX_USER>>
    /\ IdxFrame

\* lines 208-209: the form carries a hostid; the client follows the
\* redirect with a GET, which has no form
Redirect(c) ==
    /\ req[c].line = "208"
    /\ req[c].has_form
    /\ req' = [req EXCEPT ![c].line = "204", ![c].has_form = FALSE,
                          ![c].form = NoForm]
    /\ UNCHANGED <<ZABBIX_SERVER, ZABBIX_USER, ZABBIX_PASSWORD>>
    /\ IdxFrame

\* lines 210-215
CreateApi(c) ==
    /\ req[c].line = "208"
    /\ ~req[c].has_form
    /\ req' = [req EXCEPT ![c].line = "216", ![c].url = ZABBIX_SERVER]
    /\ UNCHANGED <<ZABBIX_SERVER, ZABBIX_USER, ZABBIX_PASSWORD>>
    /\ IdxFrame

\* line 216
Login(c) ==
    /\ req[c].line = "216"
    /\ req' = [req EXCEPT ![c].line = "done",
                          ![c].login = [url |-> req[c].url, user |-> ZABBIX_USER,
                                        password |-> ZABBIX_PASSWORD]]
    /\ UNCHANGED <<ZABBIX_SERVER, ZABBIX_USER, ZABBIX_PASSWORD>>
    /\ IdxFrame

NextIdx ==
    \E c \in Clients :
        \/ Post(c)
        \/ Get(c)
        \/ SetServer(c)
        \/ SetUser(c)
        \/ SetPassword(c)
        \/ Redirect(c)
        \/ CreateApi(c)
        \/ Login(c)

SpecIdx == InitIdx /\ [][NextIdx]_vars

----------------------------------------------------------------------------
(* Claims about index *)

\* the parameters a request supplies itself, or the built-in defaults
OwnParameters(r) ==
    IF r.posted
    THEN [url |-> r.supplied.server, user |-> r.supplied.username,
          password |-> r.supplied.password]
    ELSE [url |-> Defaults.server, user |-> Defaults.username,
          password |-> Defaults.password]

\* C6: whatever the interleaving of two requests, the login of a request
\* uses only the connection parameters that request supplied, or the
\* built-in defaults, never those of another request.
C6_LoginUsesOwnParameters ==
    pc = "serving" =>
        \A c \in Clients :
            req[c].line = "done" => req[c].login = OwnParameters(req[c])

----------------------------------------------------------------------------
(* Claims about the numeric comparison *)

\* the operands of the inputs that denote an integer, with the integer
IntegerOperands ==
    {<<"2">>, <<"3">>, <<"4">>, <<"7">>, <<"-", "1">>, <<"3", " ">>}

IntegerOf(s) ==
    CASE s = <<"2">> -> 2 [] s = <<"3">> -> 3 [] s = <<"4">> -> 4
      [] s = <<"7">> -> 7 [] s = <<"-", "1">> -> 0 - 1 [] s = <<"3", " ">> -> 3

\* a condition that compares: operator '5' or '6' on an attribute of the table
Compares(c) == c.conditiontype \in ConditionTypes /\ c.operator \in {"5", "6"}

\* both operands of a comparing condition denote integers
BothIntegers(c) ==
    /\ c.conditiontype # "26" /\ c.value \in IntegerOperands
    /\ TableData(c).kind = "str" /\ TableData(c).s \in IntegerOperands

\* the evaluation got as far as the i-th condition
Reached(i) ==
    \A j \in 1..(i - 1) :
        \/ act.conditions[j].conditiontype \notin (ConditionTypes \cup SkippedTypes)
        \/ \E k \in 1..Len(cond_check) :
              cond_check[k][1] = act.conditions[j].formulaid

Recorded(c) == {k \in 1..Len(cond_check) : cond_check[k][1] = c.formulaid}

\* C12: for operators '5' and '6', a non-numeric operand makes the
\* evaluation fail with an error and no boolean is returned; with two
\* integers '5' is true iff trigger data >= value and '6' is true iff
\* trigger data <= value, so equal operands satisfy both.
C12_NumericComparison ==
    FilterDone =>
        \A i \in 1..Len(act.conditions) :
            LET c == act.conditions[i] IN
            (Compares(c) /\ Reached(i)) =>
                IF BothIntegers(c)
                THEN /\ Recorded(c) # {}
                     /\ \A k \in Recorded(c) :
                           cond_check[k][2]
                             = Bool(IF c.operator = "5"
                                    THEN IntegerOf(TableData(c).s) >= IntegerOf(c.value)
                                    ELSE IntegerOf(TableData(c).s) <= IntegerOf(c.value))
                ELSE Recorded(c) = {} /\ act_result = "error" /\ pc = "error"

\* a '5' condition on the severity whose value equals the trigger's severity
\* was evaluated and the action selected on it
C12_Witness ==
    /\ pc = "done"
    /\ Len(act.conditions) = 1
    /\ act.conditions[1].conditiontype = "4"
    /\ act.conditions[1].operator = "5"
    /\ act.conditions[1].value = trigger.priority
    /\ act.eval_formula = FormulaId(1)
    /\ cond_check = <<<<FormulaId(1), "True">>>>
    /\ act_result = "selected"

----------------------------------------------------------------------------
(* index from line 230 on: the enrichment of the recipients *)

\* app.py:201
show_unavail == FALSE

\* app.py:236-244 with has_right taken from the permissions alone
Enrich_PermissionsOnly(recipient, hostgroups) ==
    LET has_right ==
            \E k \in 1..Len(hostgroups) : hostgroups[k] \in recipient.permissions
    IN [recipient EXCEPT !.has_right = has_right,
                         !.show = ~(~has_right /\ ~show_unavail)]

\* app.py:236-244: the attributes of one recipient after its pass
Enrich(recipient, hostgroups) ==
    LET has_right ==
            IF ~recipient.has_right
            THEN \E k \in 1..Len(hostgroups) : hostgroups[k] \in recipient.permissions
            ELSE recipient.has_right
    IN [recipient EXCEPT !.has_right = has_right,
                         !.show = ~(~has_right /\ ~show_unavail)]

\* the passes of the loops at lines 233-235, in order, as
\* <<trigger, message, recipient>> positions
RecipientPasses(t, i) ==
    [j \in 1..Len(messages[i].recipients) |-> <<t, i, j>>]

RECURSIVE MessagePasses(_, _)
MessagePasses(t, ms) ==
    IF Len(ms) = 0 THEN <<>>
    ELSE RecipientPasses(t, ms[1]) \o MessagePasses(t, Tail(ms))

RECURSIVE TriggerPasses(_)
TriggerPasses(t) ==
    IF t > Len(triggers) THEN <<>>
    ELSE MessagePasses(t, triggers[t].messages) \o TriggerPasses(t + 1)

EnrichOrder == TriggerPasses(1)

\* the assignments of lines 236-244 as a reference to the object o sees them
WriteFlags(r, o, e) ==
    IF r.obj = o THEN [r EXCEPT !.has_right = e.has_right, !.show = e.show]
    ELSE r

----------------------------------------------------------------------------
(* Inputs of the enrichment *)

H9 == <<"9">>

HostGroupInputs == {<<<<H1>>, <<H2>>>>, <<<<H2>>, <<H1, H2>>>>, <<<<H9>>, <<H1>>>>}

\* U1 is in group GA, the super-admin U3 is in GA alone
EnrichMemberships ==
    {m \in MembershipInputs : GA \in m[U1] /\ m[U3] = {GA}}

\* two triggers of the host; Trigger.messages holds the Message objects that
\* messages holds, the first trigger's first (app.py:123-125)
TriggersMetadata(n) ==
    {<<[triggerid |-> <<"7">>, hostgroups |-> hg[1],
        messages |-> [x \in 1..k |-> x]],
       [triggerid |-> <<"8">>, hostgroups |-> hg[2],
        messages |-> [x \in 1..(n - k) |-> k + x]]>> :
        hg \in HostGroupInputs, k \in {1, n}}

----------------------------------------------------------------------------
(* Specification of the enrichment: get_trigger_recipients from line 127   *)
(* on, as index calls it at line 230, then the loops of lines 233-244, one *)
(* recipient a step, and the rendering.                                    *)

InitEnrich ==
    /\ pc = "recipients"
    /\ messages \in MessageInputs
    /\ \E known \in {UserIds, UserIds \ {U3}}, member \in EnrichMemberships,
          rights \in RightsInputs :
        /\ users = UsersOf(known, member)
        /\ usergroups = UserGroupsOf(member, rights)
    /\ recipients = <<>>
    /\ user_groups = <<>>
    /\ groupids = {}
    /\ triggers \in TriggersMetadata(Len(messages))
    /\ cursor = 0
    /\ ZABBIX_SERVER = Defaults.server
    /\ ZABBIX_USER = Defaults.username
    /\ ZABBIX_PASSWORD = Defaults.password
    /\ req = <<>>
    /\ IdleSelect
    /\ IdleOps

\* app.py:235-244, one pass
EnrichRecipient ==
    /\ pc = "returned"
    /\ cursor < Len(EnrichOrder)
    /\ LET p == EnrichOrder[cursor + 1]
           recipient == messages[p[2]].recipients[p[3]]
           e == Enrich(recipient, triggers[p[1]].hostgroups)
       IN /\ messages' =
                [i \in 1..Len(messages) |->
                    [messages[i] EXCEPT !.recipients =
                        [j \in 1..Len(messages[i].recipients) |->
                            WriteFlags(messages[i].recipients[j], recipient.obj, e)]]]
          /\ recipients' =
                [u \in DOMAIN recipients |->
                    WriteFlags(recipients[u], recipient.obj, e)]
    /\ cursor' = cursor + 1
    /\ UNCHANGED <<pc, selectVars, opsVars, users, usergroups, user_groups,
                   groupids, ZABBIX_SERVER, ZABBIX_USER, ZABBIX_PASSWORD, req,
                   triggers>>

\* app.py:246-247
Render ==
    /\ pc = "returned"
    /\ cursor = Len(EnrichOrder)
    /\ pc' = "rendered"
    /\ UNCHANGED <<selectVars, opsVars, messages, rcpVars, idxVars>>

NextEnrich ==
    BuildRecipients \/ PopulateGroup \/ SelectRecipients \/ EnrichRecipient
    \/ Render

SpecEnrich == InitEnrich /\ [][NextEnrich]_vars

----------------------------------------------------------------------------
(* Claims about the enrichment *)

Rendered == pc = "rendered"

\* the host groups of a trigger as a set
HostGroupsOf(t) == Range(triggers[t].hostgroups)

\* C11: after the enrichment in index, for every recipient of every message
\* of every trigger, has_right is true iff the recipient is a super-admin
\* (role type 3) or the trigger's host groups and the recipient's permission
\* set intersect, and show is true iff has_right is true or the
\* show-unavailable toggle is enabled; a super-admin has has_right whatever
\* the permission set.
C11_HasRightAndShow ==
    Rendered =>
        \A t \in 1..Len(triggers) :
            \A i \in Range(triggers[t].messages) :
                \A j \in 1..Len(messages[i].recipients) :
                    LET r == messages[i].recipients[j] IN
                    /\ r.has_right
                         <=> (r.type = "3" \/ HostGroupsOf(t) \cap r.permissions # {})
                    /\ r.show <=> (r.has_right \/ show_unavail)
                    /\ r.type = "3" => r.has_right

\* a rendered message shows a super-admin whose permissions miss the
\* trigger's host groups, next to a user who has no right and is hidden
C11_Witness ==
    /\ Rendered
    /\ \E t \in 1..Len(triggers) :
        \E i \in Range(triggers[t].messages) :
            /\ \E j \in 1..Len(messages[i].recipients) :
                LET r == messages[i].recipients[j] IN
                /\ r.type = "3"
                /\ HostGroupsOf(t) \cap r.permissions = {}
                /\ r.has_right /\ r.show
            /\ \E j \in 1..Len(messages[i].recipients) :
                LET r == messages[i].recipients[j] IN
                /\ r.type # "3"
                /\ r.permissions # {}
                /\ ~r.has_right /\ ~r.show
            /\ \E j \in 1..Len(messages[i].recipients) :
                LET r == messages[i].recipients[j] IN
                /\ r.type # "3"
                /\ r.has_right /\ r.show

\* the record get_trigger_recipients keeps for a user is as it was built:
\* no message's flag is set on it
SharedUntouched ==
    \A u \in DOMAIN recipients :
        /\ ~recipients[u].mediatype
        /\ ~recipients[u].show
        /\ recipients[u].has_right <=> (recipients[u].type = "3")

\* a message's reachable-via-this-media flags follow from its own media type
OwnMediaFlags ==
    \A i \in 1..Len(messages) :
        \A j \in 1..Len(messages[i].recipients) :
            LET r == messages[i].recipients[j] IN
            r.mediatype <=> (messages[i].mediatypeid \in recipients[r.userid].sendto)

\* a message's has_right and show follow from the shared record and the host
\* groups of the message's own trigger
OwnTriggerFlags ==
    \A t \in 1..Len(triggers) :
        \A i \in Range(triggers[t].messages) :
            \A j \in 1..Len(messages[i].recipients) :
                LET r == messages[i].recipients[j]
                    shared == recipients[r.userid]
                IN /\ r.has_right
                        <=> (shared.has_right
                             \/ HostGroupsOf(t) \cap shared.permissions # {})
                   /\ r.show <=> r.has_right

\* one pass of the enrichment changes the recipient it is at and nothing else
EnrichFrame ==
    cursor' = cursor + 1 =>
        LET p == EnrichOrder[cursor + 1] IN
        /\ recipients' = recipients
        /\ \A i \in 1..Len(messages) :
            \A j \in 1..Len(messages[i].recipients) :
                <<i, j>> # <<p[2], p[3]>>
                    => messages'[i].recipients[j] = messages[i].recipients[j]

RecipientsIndependent ==
    /\ pc \in {"returned", "rendered"} => (SharedUntouched /\ OwnMediaFlags)
    /\ Rendered => OwnTriggerFlags

\* C13: recipient records are independent per message: setting the
\* reachable-via-this-media flag, has_right or show on one message's
\* recipient never changes them on the recipient of the same user in another
\* message, of the same or another trigger, nor on the shared per-user
\* record; each message's flags depend only on that message's media type and
\* its own trigger's host groups.
C13_RecipientsIndependent == []RecipientsIndependent /\ [][EnrichFrame]_vars

\* the same user is a recipient of two messages of different triggers and
\* media types, with the right and reachable in one and neither in the other
C13_Witness ==
    /\ Rendered
    /\ \E t1, t2 \in 1..Len(triggers) :
        /\ t1 # t2
        /\ \E i1 \in Range(triggers[t1].messages), i2 \in Range(triggers[t2].messages) :
            /\ messages[i1].mediatypeid # messages[i2].mediatypeid
            /\ \E j1 \in 1..Len(messages[i1].recipients),
                  j2 \in 1..Len(messages[i2].recipients) :
                LET r1 == messages[i1].recipients[j1]
                    r2 == messages[i2].recipients[j2]
                IN /\ r1.userid = r2.userid
                   /\ r1.has_right /\ r1.show /\ r1.mediatype
                   /\ ~r2.has_right /\ ~r2.show /\ ~r2.mediatype

----------------------------------------------------------------------------
(* Claims about group members the known-user set does not hold *)

TargetedKnownGroups == TargetedGroups \cap DOMAIN usergroups

\* the members of a group that user.get did not return
UnknownMembers(g) == {u \in Range(usergroups[g].users) : u \notin DOMAIN users}

HasUnknownMember == \E g \in TargetedKnownGroups : UnknownMembers(g) # {}

\* the users of the recipient list of a message
RecipientsOf(m) == {m.recipients[j].userid : j \in 1..Len(m.recipients)}

\* C14: get_trigger_recipients completes without error when a targeted user
\* group has a member that is absent from the known-user set: the member is
\* skipped, gets no recipient record and is in no message's recipient list,
\* and the other members of the group are still resolved.
C14_UnknownMemberSkipped ==
    HasUnknownMember =>
        /\ pc # "error"
        /\ Resolved =>
            \A g \in TargetedKnownGroups :
                \A u \in Range(usergroups[g].users) :
                    IF u \in DOMAIN users
                    THEN /\ u \in DOMAIN recipients
                         /\ \A i \in 1..Len(messages) :
                               InSeq(g, messages[i].groups)
                                   => u \in RecipientsOf(messages[i])
                    ELSE /\ u \notin DOMAIN recipients
                         /\ \A i \in 1..Len(messages) :
                               u \notin RecipientsOf(messages[i])

====
